---- MODULE Spec2Model ----
(***************************************************************************)
(* Model of the OperaDemo RAG core: DocumentProcessor (chunker),           *)
(* HybridRetriever (index + retrieve), HuggingFaceProvider.generate,       *)
(* MultiStageValidator and RAGPipeline (load_documents / query).           *)
(*                                                                         *)
(* Text is a sequence of one-character strings, so that slicing, rfind,    *)
(* split and the validator's regular expressions are computed as Python    *)
(* computes them.  Scores are exact rationals (floating-point rounding is  *)
(* not modelled).                                                          *)
(***************************************************************************)
EXTENDS Integers, Sequences, FiniteSets, TLC

(***************************************************************************)
(* Bounds of the model.                                                    *)
(***************************************************************************)
\* raw BM25 / cosine scores handed back by the external libraries: 0..MaxScore
MaxScore == 1
\* top_k values tried by direct retrieve calls: 0..MaxTopK
MaxTopK == 2
\* an index operation is only started when the resulting list stays this short
MaxChunks == 2

(***************************************************************************)
(* Program constants.                                                      *)
(***************************************************************************)
chunk_size == 800
chunk_overlap == 200
top_k == 5
BreakSlack == 200

\* Python's None
None == [none |-> TRUE]

(***************************************************************************)
(* Python string primitives over character sequences.                      *)
(***************************************************************************)
Max2(a, b) == IF a >= b THEN a ELSE b
Min2(a, b) == IF a <= b THEN a ELSE b
SetMin(S) == CHOOSE x \in S : \A y \in S : x <= y
SetMax(S) == 0 - SetMin({0 - x : x \in S})

Digits == {"0", "1", "2", "3", "4", "5", "6", "7", "8", "9"}
UpperSeq == <<"A", "B", "C", "D", "E", "F", "G", "H", "I", "J", "K", "L", "M",
              "N", "O", "P", "Q", "R", "S", "T", "U", "V", "W", "X", "Y", "Z">>
LowerSeq == <<"a", "b", "c", "d", "e", "f", "g", "h", "i", "j", "k", "l", "m",
              "n", "o", "p", "q", "r", "s", "t", "u", "v", "w", "x", "y", "z">>
UpperSet == {"A", "B", "C", "D", "E", "F", "G", "H", "I", "J", "K", "L", "M",
             "N", "O", "P", "Q", "R", "S", "T", "U", "V", "W", "X", "Y", "Z"}
LowerSet == {"a", "b", "c", "d", "e", "f", "g", "h", "i", "j", "k", "l", "m",
             "n", "o", "p", "q", "r", "s", "t", "u", "v", "w", "x", "y", "z"}
Whitespace == {" ", "\n", "\t"}

IsSpace(c) == c \in Whitespace
IsDigit(c) == c \in Digits

\* str.lower() on one character and on a text
LowerOf == [c \in UpperSet |-> LowerSeq[CHOOSE i \in 1..26 : UpperSeq[i] = c]]
LowerChar(c) == IF c \in UpperSet THEN LowerOf[c] ELSE c
PyLower(s) == [i \in 1..Len(s) |-> LowerChar(s[i])]

\* s[a:b] with Python's clamping of negative and out-of-range bounds
PyIndex(i, n) == IF i < 0 THEN Max2(i + n, 0) ELSE Min2(i, n)
PySlice(s, a, b) == SubSeq(s, PyIndex(a, Len(s)) + 1, PyIndex(b, Len(s)))

\* does sub occur in s at 0-based offset i
MatchAt(s, sub, i) ==
    /\ i >= 0
    /\ i + Len(sub) <= Len(s)
    /\ \A k \in 1..Len(sub) : s[i + k] = sub[k]

\* str.rfind(sub): highest 0-based offset of sub in s, -1 when absent
PyRFind(s, sub) ==
    LET hits == {i \in 0..(Len(s) - Len(sub)) : MatchAt(s, sub, i)}
    IN IF hits = {} THEN -1 ELSE SetMax(hits)

\* sub in s
PyContains(s, sub) == \E i \in 0..(Len(s) - Len(sub)) : MatchAt(s, sub, i)

\* str.strip()
PyStrip(s) ==
    IF \A i \in 1..Len(s) : IsSpace(s[i]) THEN <<>>
    ELSE SubSeq(s,
                CHOOSE i \in 1..Len(s) :
                    ~IsSpace(s[i]) /\ \A k \in 1..(i - 1) : IsSpace(s[k]),
                CHOOSE j \in 1..Len(s) :
                    ~IsSpace(s[j]) /\ \A k \in (j + 1)..Len(s) : IsSpace(s[k]))

\* str.split(): the maximal runs of non-whitespace characters, in order
RECURSIVE SplitFrom(_, _)
WordEnd(s, i) ==
    CHOOSE j \in i..Len(s) :
        /\ j = Len(s) \/ IsSpace(s[j + 1])
        /\ \A k \in i..j : ~IsSpace(s[k])
TakeWord(s, i, e) == <<SubSeq(s, i, e)>> \o SplitFrom(s, e + 1)
SplitFrom(s, pos) ==
    IF \A i \in pos..Len(s) : IsSpace(s[i]) THEN <<>>
    ELSE TakeWord(s,
                  CHOOSE i \in pos..Len(s) :
                      ~IsSpace(s[i]) /\ \A k \in pos..(i - 1) : IsSpace(s[k]),
                  WordEnd(s, CHOOSE i \in pos..Len(s) :
                                 ~IsSpace(s[i]) /\ \A k \in pos..(i - 1) : IsSpace(s[k])))
PySplit(s) == SplitFrom(s, 1)

\* sep.join(parts)
RECURSIVE PyJoin(_, _)
PyJoin(sep, parts) ==
    IF parts = <<>> THEN <<>>
    ELSE IF Len(parts) = 1 THEN parts[1]
    ELSE parts[1] \o sep \o PyJoin(sep, Tail(parts))

\* str.replace(c, "") for a single character c
PyRemoveChar(s, c) ==
    LET Keep(ch) == ch # c
    IN SelectSeq(s, Keep)

SeqToSet(s) == {s[i] : i \in 1..Len(s)}

RECURSIVE Flatten(_)
Flatten(seqs) == IF seqs = <<>> THEN <<>> ELSE Head(seqs) \o Flatten(Tail(seqs))

(***************************************************************************)
(* DocumentProcessor                                                       *)
(***************************************************************************)
NUL == "NUL"

\* DocumentProcessor._clean_text
CleanText(text) == PyStrip(PyRemoveChar(PyJoin(<<" ">>, PySplit(text)), NUL))

\* the pass of the loop advancing from the end of the untrimmed window
CreateChunksIterUntrimmedAdvance(text, source, page, start, chunk_id, size, overlap) ==
    LET end0 == start + size
        window == PySlice(text, start, end0)
        last_period == PyRFind(window, <<".", " ">>)
        last_newline == PyRFind(window, <<"\n">>)
        break_point == Max2(last_period, last_newline)
        trim == end0 < Len(text) /\ break_point > size - BreakSlack
        chunk_text == IF trim THEN PySlice(window, 0, break_point + 1) ELSE window
        end == IF trim THEN start + Len(chunk_text) ELSE end0
        next == end0 - overlap
    IN [chunk |-> [text |-> PyStrip(chunk_text), source |-> source, page |-> page,
                   chunk_id |-> chunk_id, char_start |-> start, char_end |-> end,
                   chunk_length |-> Len(chunk_text)],
        next |-> next,
        stop |-> (next >= Len(text) \/ end >= Len(text))]

\* one pass of the while loop of DocumentProcessor._create_chunks, entered with
\* start < len(text): the chunk emitted, the next start and whether it breaks
CreateChunksIter(text, source, page, start, chunk_id, size, overlap) ==
    LET end0 == start + size
        window == PySlice(text, start, end0)
        last_period == PyRFind(window, <<".", " ">>)
        last_newline == PyRFind(window, <<"\n">>)
        break_point == Max2(last_period, last_newline)
        trim == end0 < Len(text) /\ break_point > size - BreakSlack
        chunk_text == IF trim THEN PySlice(window, 0, break_point + 1) ELSE window
        end == IF trim THEN start + Len(chunk_text) ELSE end0
        next == end - overlap
    IN [chunk |-> [text |-> PyStrip(chunk_text), source |-> source, page |-> page,
                   chunk_id |-> chunk_id, char_start |-> start, char_end |-> end,
                   chunk_length |-> Len(chunk_text)],
        next |-> next,
        stop |-> (next >= Len(text) \/ end >= Len(text))]

RECURSIVE CreateChunksFrom(_, _, _, _, _, _, _)
CreateChunksFrom(text, source, page, start, chunk_id, size, overlap) ==
    IF ~(start < Len(text)) THEN <<>>
    ELSE LET it == CreateChunksIter(text, source, page, start, chunk_id, size, overlap)
         IN <<it.chunk>> \o
            (IF it.stop THEN <<>>
             ELSE CreateChunksFrom(text, source, page, it.next, chunk_id + 1,
                                   size, overlap))

\* DocumentProcessor._create_chunks: start = 0 and chunk_id = 0 on every call
CreateChunks(text, source, page) ==
    CreateChunksFrom(text, source, page, 0, 0, chunk_size, chunk_overlap)


(***************************************************************************)
(* The documents on disk.  A file is the sequence of its pages' extracted   *)
(* text (<<>> for a page pdfplumber extracts nothing from); a file that     *)
(* cannot be opened has readable = FALSE.                                   *)
(***************************************************************************)
FeeText ==
    <<"F","e","e"," ","i","s"," ","2","%",".">>
FeeTextV2 ==
    <<"F","e","e"," ","i","s"," ","3","%",".">>
ReturnsRaw ==
    <<"F","u","n","d"," ","A"," "," ","u","p","\n","5","%"," ","i","n"," ",
      "2","0","2","3","."," ">>
ExitText ==
    <<"E","x","i","t",":"," ","$","5","0",".">>

FileSystem ==
    [p \in {"fee.pdf", "two.pdf", "bad.pdf", "docs/fee.pdf",
            "docs/exit.pdf", "docs/notes.txt", "docs", "nowhere"} |->
       CASE p = "fee.pdf" ->
              [kind |-> "file", readable |-> TRUE, pages |-> <<FeeText>>]
         [] p = "two.pdf" ->
              [kind |-> "file", readable |-> TRUE,
               pages |-> <<ReturnsRaw, <<>>, ExitText>>]
         [] p = "bad.pdf" ->
              [kind |-> "file", readable |-> FALSE, pages |-> <<>>]
         [] p = "docs/fee.pdf" ->
              [kind |-> "file", readable |-> TRUE, pages |-> <<FeeTextV2>>]
         [] p = "docs/exit.pdf" ->
              [kind |-> "file", readable |-> TRUE, pages |-> <<ExitText>>]
         [] p = "docs/notes.txt" ->
              [kind |-> "file", readable |-> TRUE, pages |-> <<>>]
         [] p = "docs" ->
              [kind |-> "dir",
               entries |-> <<"docs/fee.pdf", "docs/notes.txt", "docs/exit.pdf">>]
         [] p = "nowhere" -> [kind |-> "none"]]

\* the paths handed to load_documents
Paths == {"fee.pdf", "two.pdf", "bad.pdf", "docs", "nowhere"}

\* os.path.basename
Basename(p) ==
    CASE p = "docs/fee.pdf" -> "fee.pdf"
      [] p = "docs/exit.pdf" -> "exit.pdf"
      [] p = "docs/notes.txt" -> "notes.txt"
      [] OTHER -> p

\* Path(directory).glob("*.pdf")
IsPdfName(p) == p \in {"fee.pdf", "two.pdf", "bad.pdf", "docs/fee.pdf",
                       "docs/exit.pdf"}
GlobPdf(dir) == SelectSeq(FileSystem[dir].entries, IsPdfName)

\* the chunks of one page inside DocumentProcessor.process_pdf; page_num
\* counts every page, also the ones skipped for having no text
PageChunks(pdf_path, page_num) ==
    LET text == FileSystem[pdf_path].pages[page_num]
    IN IF text = <<>> THEN <<>>
       ELSE CreateChunks(CleanText(text), Basename(pdf_path), page_num)

\* DocumentProcessor.process_pdf: an error while opening is caught and the
\* chunks collected so far (none) are returned
ProcessPdf(pdf_path) ==
    IF ~FileSystem[pdf_path].readable THEN <<>>
    ELSE Flatten([n \in 1..Len(FileSystem[pdf_path].pages) |->
                    PageChunks(pdf_path, n)])

\* DocumentProcessor.process_directory
ProcessDirectory(directory) ==
    LET pdf_files == GlobPdf(directory)
    IN Flatten([k \in 1..Len(pdf_files) |-> ProcessPdf(pdf_files[k])])

(***************************************************************************)
(* Exact rationals [n, d] with d > 0, kept in lowest terms.                *)
(***************************************************************************)
RECURSIVE Gcd(_, _)
Gcd(a, b) == IF b = 0 THEN a ELSE Gcd(b, a % b)
Abs(x) == IF x < 0 THEN -x ELSE x
Frac(n, d) ==
    LET g == Gcd(Abs(n), Abs(d))
        s == IF d < 0 THEN -1 ELSE 1
    IN [n |-> (s * n) \div g, d |-> (s * d) \div g]
FInt(k) == [n |-> k, d |-> 1]
FAdd(x, y) == Frac(x.n * y.d + y.n * x.d, x.d * y.d)
FSub(x, y) == Frac(x.n * y.d - y.n * x.d, x.d * y.d)
FMul(x, y) == Frac(x.n * y.n, x.d * y.d)
FDiv(x, y) == Frac(x.n * y.d, x.d * y.n)
FLeq(x, y) == x.n * y.d <= y.n * x.d
FLt(x, y) == x.n * y.d < y.n * x.d
FGeq(x, y) == FLeq(y, x)
FMin(x, y) == IF FLeq(x, y) THEN x ELSE y
FMax(x, y) == IF FLeq(x, y) THEN y ELSE x
RECURSIVE FSum(_)
FSum(xs) == IF xs = <<>> THEN FInt(0) ELSE FAdd(Head(xs), FSum(Tail(xs)))

(***************************************************************************)
(* HybridRetriever.  A retriever value r has the three fields the class    *)
(* keeps: chunks, bm25 (None, or the BM25Okapi object, which is the        *)
(* tokenized corpus it was built over) and chunk_embeddings (None, or the  *)
(* matrix with one row per encoded text).  The scores BM25Okapi.get_scores *)
(* and cosine_similarity return are chosen by the environment, one per     *)
(* corpus document / matrix row.                                           *)
(***************************************************************************)
bm25_weight == Frac(1, 2)
dense_weight == Frac(1, 2)

\* the row SentenceTransformer.encode produces for one text
Embed(text) == <<"emb", text>>

\* HybridRetriever.__init__
NewRetriever == [chunks |-> <<>>, bm25 |-> None, chunk_embeddings |-> None]

ChunkKey(c) == <<c.source, c.chunk_id>>

\* the merge without the filter on existing_ids
IdxMergeNoDedup(r, new, append) ==
    IF append /\ r.chunks # <<>>
    THEN [r EXCEPT !.chunks = r.chunks \o new]
    ELSE [r EXCEPT !.chunks = new]

\* the merge letting an incoming chunk take the place of the held chunk with
\* its key
IdxMergeUpsert(r, new, append) ==
    IF append /\ r.chunks # <<>>
    THEN LET incoming_ids == {ChunkKey(new[i]) : i \in 1..Len(new)}
             Kept(c) == ChunkKey(c) \notin incoming_ids
         IN [r EXCEPT !.chunks = SelectSeq(r.chunks, Kept) \o new]
    ELSE [r EXCEPT !.chunks = new]

\* index_documents, the merge of the incoming chunks into self.chunks
IdxMerge(r, new, append) ==
    IF append /\ r.chunks # <<>>
    THEN LET existing_ids == {ChunkKey(r.chunks[i]) : i \in 1..Len(r.chunks)}
             Fresh(c) == ChunkKey(c) \notin existing_ids
         IN [r EXCEPT !.chunks = r.chunks \o SelectSeq(new, Fresh)]
    ELSE [r EXCEPT !.chunks = new]

\* index_documents, self.bm25 = BM25Okapi(tokenized_corpus)
IdxBM25(r) ==
    [r EXCEPT !.bm25 = [corpus |-> [i \in 1..Len(r.chunks) |->
                                       PySplit(r.chunks[i].text)]]]

\* index_documents, self.chunk_embeddings = self.embedding_model.encode(texts)
IdxEncode(r) ==
    [r EXCEPT !.chunk_embeddings =
                  [rows |-> [i \in 1..Len(r.chunks) |->
                               Embed(r.chunks[i].text)]]]

\* the points at which a library call inside index_documents may raise
Faults == {"none", "bm25", "encode"}

\* index_documents without the early return on an empty batch: with
\* append = False the chunk list is emptied and BM25Okapi raises on the empty
\* corpus
IndexDocumentsNoEmptyGuard(r, new, append, fault) ==
    IF new = <<>>
    THEN IF append /\ r.chunks # <<>> THEN [r |-> r, outcome |-> "ok"]
         ELSE [r |-> [r EXCEPT !.chunks = <<>>], outcome |-> "raised"]
    ELSE LET r1 == IdxMerge(r, new, append)
         IN IF fault = "bm25" THEN [r |-> r1, outcome |-> "raised"]
            ELSE IF fault = "encode" THEN [r |-> IdxBM25(r1), outcome |-> "raised"]
            ELSE [r |-> IdxEncode(IdxBM25(r1)), outcome |-> "ok"]

\* HybridRetriever.index_documents: the retriever it leaves behind and whether
\* it returned or raised
IndexDocuments(r, new, append, fault) ==
    IF new = <<>> THEN [r |-> r, outcome |-> "ok"]
    ELSE LET r1 == IdxMerge(r, new, append)
         IN IF fault = "bm25" THEN [r |-> r1, outcome |-> "raised"]
            ELSE IF fault = "encode" THEN [r |-> IdxBM25(r1), outcome |-> "raised"]
            ELSE [r |-> IdxEncode(IdxBM25(r1)), outcome |-> "ok"]

\* the rescaling with np.zeros_like in place of np.ones_like
RescaleZerosWhenFlat(scores, min_score, max_score) ==
    IF FSub(max_score, min_score) = FInt(0)
    THEN [i \in 1..Len(scores) |-> FInt(0)]
    ELSE [i \in 1..Len(scores) |->
            FDiv(FSub(scores[i], min_score), FSub(max_score, min_score))]

\* _normalize_scores, the rescaling between the extreme scores
Rescale(scores, min_score, max_score) ==
    IF FSub(max_score, min_score) = FInt(0)
    THEN [i \in 1..Len(scores) |-> FInt(1)]
    ELSE [i \in 1..Len(scores) |->
            FDiv(FSub(scores[i], min_score), FSub(max_score, min_score))]

\* HybridRetriever._normalize_scores
NormalizeScores(scores) ==
    IF Len(scores) = 0 THEN scores
    ELSE Rescale(scores,
                 CHOOSE x \in SeqToSet(scores) :
                     \A y \in SeqToSet(scores) : FLeq(x, y),
                 CHOOSE x \in SeqToSet(scores) :
                     \A y \in SeqToSet(scores) : FLeq(y, x))

\* numpy broadcasting of two one-dimensional arrays: the common length, or -1
\* when the shapes do not broadcast
BroadcastLen(a, b) ==
    IF a = b THEN a ELSE IF a = 1 THEN b ELSE IF b = 1 THEN a ELSE -1
BroadcastAt(v, i) == IF Len(v) = 1 THEN v[1] ELSE v[i]

\* retrieve, the weighted sum of the two normalized score arrays
CombinedScores(bm25_scores_norm, dense_scores_norm) ==
    [i \in 1..BroadcastLen(Len(bm25_scores_norm), Len(dense_scores_norm)) |->
        FAdd(FMul(bm25_weight, BroadcastAt(bm25_scores_norm, i)),
             FMul(dense_weight, BroadcastAt(dense_scores_norm, i)))]

\* np.argsort: the orders (sequences of positions 1..n) that sort v ascending;
\* the order among equal scores is left to the sorting routine
ArgSorts(v) ==
    {p \in [1..Len(v) -> 1..Len(v)] :
        /\ \A i, j \in 1..Len(v) : i # j => p[i] # p[j]
        /\ \A i \in 1..(Len(v) - 1) : FLeq(v[p[i]], v[p[i + 1]])}

Reverse(s) == [i \in 1..Len(s) |-> s[Len(s) + 1 - i]]

\* retrieve, np.argsort(combined_scores)[-top_k:][::-1] for one sorting order
TopIndices(order, k) == Reverse(PySlice(order, -k, Len(order)))

\* retrieve, the result dictionary of one selected position
ResultRow(r, idx, combined, bn, dn, return_scores) ==
    IF return_scores
    THEN [text |-> r.chunks[idx].text, source |-> r.chunks[idx].source,
          page |-> r.chunks[idx].page, chunk_id |-> r.chunks[idx].chunk_id,
          combined_score |-> combined[idx], bm25_score |-> bn[idx],
          dense_score |-> dn[idx]]
    ELSE [text |-> r.chunks[idx].text, source |-> r.chunks[idx].source,
          page |-> r.chunks[idx].page, chunk_id |-> r.chunks[idx].chunk_id]

\* the raw score arrays the libraries may hand back for n documents
RawScores(n) == [1..n -> {FInt(v) : v \in 0..MaxScore}]

\* retrieve, the result list built from the selected positions; indexing past
\* the end of self.chunks or of a score array raises
ResultRows(r, top_indices, combined, bn, dn, return_scores) ==
    IF \E i \in 1..Len(top_indices) :
          \/ top_indices[i] > Len(r.chunks)
          \/ return_scores /\ (top_indices[i] > Len(bn) \/ top_indices[i] > Len(dn))
    THEN [outcome |-> "raised", results |-> <<>>]
    ELSE [outcome |-> "ok",
          results |-> [i \in 1..Len(top_indices) |->
                         ResultRow(r, top_indices[i], combined, bn, dn,
                                   return_scores)]]

\* retrieve, from the normalized score arrays on
RetrieveNormalized(r, k, return_scores, bn, dn, order) ==
    ResultRows(r, TopIndices(order, k), CombinedScores(bn, dn), bn, dn,
               return_scores)

\* what the environment decides in one retrieve call over nb BM25 scores and
\* nd similarities: the two score arrays (normalized by _normalize_scores) and
\* the order argsort picks among equal combined scores
NormalizedScores(n) == {NormalizeScores(v) : v \in RawScores(n)}
ScoreRunsOf(nb, nd) ==
    UNION {{[bn |-> bn, dn |-> dn, order |-> order] :
               order \in ArgSorts(CombinedScores(bn, dn))} :
           bn \in NormalizedScores(nb), dn \in NormalizedScores(nd)}
ScoreRuns ==
    [nb \in 1..MaxChunks, nd \in 1..MaxChunks |->
        IF BroadcastLen(nb, nd) = -1 THEN {} ELSE ScoreRunsOf(nb, nd)]

\* retrieve, from the two score arrays on: nb BM25 scores and nd similarities
\* are combined (arrays that do not broadcast raise) and the rows are built
\* from cs, the chunk list
RetrieveScored(cs, k, return_scores, nb, nd) ==
    IF BroadcastLen(nb, nd) = -1
    THEN {[outcome |-> "raised", results |-> <<>>]}
    ELSE {RetrieveNormalized([chunks |-> cs], k, return_scores, run.bn, run.dn,
                             run.order) : run \in ScoreRuns[nb, nd]}

\* HybridRetriever.retrieve: every result the call can produce on retriever r
Retrieve(r, k, return_scores) ==
    IF r.chunks = <<>> \/ r.bm25 = None
    THEN {[outcome |-> "ok", results |-> <<>>]}
    ELSE IF r.chunk_embeddings = None
    THEN {[outcome |-> "raised", results |-> <<>>]}
    ELSE RetrieveScored(r.chunks, k, return_scores, Len(r.bm25.corpus),
                        Len(r.chunk_embeddings.rows))

(***************************************************************************)
(* Regular expressions of the validator, matched as Python's re does:      *)
(* MatchEnd gives the last position (1-based) of the match that starts at  *)
(* position i, or 0 when the pattern does not match there.                 *)
(***************************************************************************)
\* last position of the maximal run of digits starting at the digit s[i]
DigitRunEnd(s, i) ==
    CHOOSE j \in i..Len(s) :
        /\ j = Len(s) \/ ~IsDigit(s[j + 1])
        /\ \A k \in i..j : IsDigit(s[k])
\* the character at position i, "" outside the text
CharAt(s, i) == IF i >= 1 /\ i <= Len(s) THEN s[i] ELSE ""
DigitAt(s, i) == IsDigit(CharAt(s, i))

\* \d+\.?\d*  : digits, an optional dot, more digits
MatchEndDecimal(s, i) ==
    IF ~DigitAt(s, i) THEN 0
    ELSE LET e1 == DigitRunEnd(s, i)
         IN IF CharAt(s, e1 + 1) = "."
            THEN (IF DigitAt(s, e1 + 2) THEN DigitRunEnd(s, e1 + 2) ELSE e1 + 1)
            ELSE e1

\* \d+\.?\d*%
MatchEndPercent(s, i) ==
    IF ~DigitAt(s, i) THEN 0
    ELSE LET e1 == DigitRunEnd(s, i)
             e2 == MatchEndDecimal(s, i)
         IN IF CharAt(s, e2 + 1) = "%" THEN e2 + 1
            ELSE IF CharAt(s, e1 + 1) = "%" THEN e1 + 1
            ELSE 0

\* (?:,\d{3})* from position e on
RECURSIVE ThousandsEnd(_, _)
ThousandsEnd(s, e) ==
    IF CharAt(s, e + 1) = "," /\ DigitAt(s, e + 2) /\ DigitAt(s, e + 3)
                              /\ DigitAt(s, e + 4)
    THEN ThousandsEnd(s, e + 4) ELSE e

\* \$\d+(?:,\d{3})*(?:\.\d{2})?
MatchEndCurrency(s, i) ==
    IF ~(CharAt(s, i) = "$" /\ DigitAt(s, i + 1)) THEN 0
    ELSE LET e == ThousandsEnd(s, DigitRunEnd(s, i + 1))
         IN IF CharAt(s, e + 1) = "." /\ DigitAt(s, e + 2) /\ DigitAt(s, e + 3)
            THEN e + 3 ELSE e

\* \$\d+
MatchEndDollar(s, i) ==
    IF CharAt(s, i) = "$" /\ DigitAt(s, i + 1) THEN DigitRunEnd(s, i + 1) ELSE 0

\* [A-Z][a-z]+ \d{1,2}, \d{4}
MatchEndDate(s, i) ==
    IF ~(CharAt(s, i) \in UpperSet /\ CharAt(s, i + 1) \in LowerSet) THEN 0
    ELSE LET e == CHOOSE j \in (i + 1)..Len(s) :
                      /\ j = Len(s) \/ s[j + 1] \notin LowerSet
                      /\ \A k \in (i + 1)..j : s[k] \in LowerSet
             Year(p) == /\ CharAt(s, p) = "," /\ CharAt(s, p + 1) = " "
                        /\ \A k \in 2..5 : DigitAt(s, p + k)
         IN IF ~(CharAt(s, e + 1) = " " /\ DigitAt(s, e + 2)) THEN 0
            ELSE IF DigitAt(s, e + 3) /\ Year(e + 4) THEN e + 9
            ELSE IF Year(e + 3) THEN e + 8
            ELSE 0

\* every pattern starts with a digit, "$" or a capital letter
PatternStarts == Digits \cup UpperSet \cup {"$"}

MatchEnd(pattern, s, i) ==
    IF s[i] \notin PatternStarts THEN 0
    ELSE CASE pattern = "percent" -> MatchEndPercent(s, i)
           [] pattern = "currency" -> MatchEndCurrency(s, i)
           [] pattern = "decimal" -> MatchEndDecimal(s, i)
           [] pattern = "dollar" -> MatchEndDollar(s, i)
           [] pattern = "date" -> MatchEndDate(s, i)

\* re.findall(pattern, s): the non-overlapping matches, leftmost first
RECURSIVE FindAllFrom(_, _, _)
TakeMatch(pattern, s, i, e) ==
    <<SubSeq(s, i, e)>> \o FindAllFrom(pattern, s, e + 1)
FirstMatch(pattern, s, i) == TakeMatch(pattern, s, i, MatchEnd(pattern, s, i))
FindAllFrom(pattern, s, pos) ==
    IF \A i \in pos..Len(s) : MatchEnd(pattern, s, i) = 0 THEN <<>>
    ELSE FirstMatch(pattern, s,
                    CHOOSE i \in pos..Len(s) :
                        /\ MatchEnd(pattern, s, i) > 0
                        /\ \A k \in pos..(i - 1) : MatchEnd(pattern, s, k) = 0)
ReFindAll(pattern, s) == FindAllFrom(pattern, s, 1)

\* bool(re.search(pattern, s))
ReSearch(pattern, s) == \E i \in 1..Len(s) : MatchEnd(pattern, s, i) > 0

(***************************************************************************)
(* MultiStageValidator                                                     *)
(***************************************************************************)
S_cannot_find ==
    <<"c","a","n","n","o","t"," ","f","i","n","d">>
S_not_available ==
    <<"n","o","t"," ","a","v","a","i","l","a","b","l","e">>
S_Source ==
    <<"S","o","u","r","c","e">>
S_According_to ==
    <<"A","c","c","o","r","d","i","n","g"," ","t","o">>

retrieval_threshold == Frac(3, 10)
alignment_threshold == Frac(1, 2)
min_confidence == Frac(6, 10)
medium_confidence == Frac(4, 10)

\* chunk.get("combined_score", 0.0)
GetCombinedScore(row) ==
    IF "combined_score" \in DOMAIN row THEN row.combined_score ELSE FInt(0)

\* " ".join([chunk.get("text", "") for chunk in retrieved_chunks])
SourceText(retrieved_chunks) ==
    PyJoin(<<" ">>, [i \in 1..Len(retrieved_chunks) |-> retrieved_chunks[i].text])

\* MultiStageValidator._check_retrieval_quality
CheckRetrievalQuality(retrieved_chunks) ==
    IF retrieved_chunks = <<>> THEN FInt(0)
    ELSE FDiv(FSum([i \in 1..Len(retrieved_chunks) |->
                      GetCombinedScore(retrieved_chunks[i])]),
              FInt(Len(retrieved_chunks)))

\* _check_source_alignment, the overlap ratio of the two token sets
OverlapRatio(answer_tokens, source_tokens) ==
    IF answer_tokens = {} THEN FInt(0)
    ELSE Frac(Cardinality(answer_tokens \cap source_tokens),
              Cardinality(answer_tokens))

\* MultiStageValidator._check_source_alignment
CheckSourceAlignment(answer, retrieved_chunks) ==
    IF retrieved_chunks = <<>> \/ answer = <<>> THEN FInt(0)
    ELSE OverlapRatio(SeqToSet(PySplit(PyLower(answer))),
                      SeqToSet(PySplit(PyLower(SourceText(retrieved_chunks)))))

\* _detect_hallucination, the indicators list built by the three tests
Indicators(contradictory, unattributed, too_long) ==
    (IF contradictory
     THEN <<"Contradictory: Claims no info but provides detail">> ELSE <<>>)
    \o (IF unattributed
        THEN <<"Specific claims without source attribution">> ELSE <<>>)
    \o (IF too_long
        THEN <<"Answer length exceeds reasonable extraction ratio">> ELSE <<>>)

\* the returned dictionary when the contradiction test does not set
\* likely_hallucination itself
HallucinationReportTwoOnly(contradictory, indicators) ==
    [likely_hallucination |-> Len(indicators) >= 2,
     indicators |-> indicators,
     confidence |-> Frac(10 - 3 * Len(indicators), 10)]

\* _detect_hallucination, the returned dictionary
HallucinationReport(contradictory, indicators) ==
    [likely_hallucination |-> contradictory \/ Len(indicators) >= 2,
     indicators |-> indicators,
     confidence |-> Frac(10 - 3 * Len(indicators), 10)]

\* sum(len(c.get("text", "")) for c in retrieved_chunks)
RECURSIVE SourceLength(_)
SourceLength(retrieved_chunks) ==
    IF retrieved_chunks = <<>> THEN 0
    ELSE Len(Head(retrieved_chunks).text) + SourceLength(Tail(retrieved_chunks))

\* _detect_hallucination, "cannot find" / "not available" in a long answer
Contradictory(answer) ==
    /\ \/ PyContains(PyLower(answer), S_cannot_find)
       \/ PyContains(PyLower(answer), S_not_available)
    /\ Len(PySplit(answer)) > 20

\* _detect_hallucination, specifics without a citation marker
Unattributed(answer, retrieved_chunks) ==
    /\ \/ ReSearch("percent", answer)
       \/ ReSearch("dollar", answer)
       \/ ReSearch("date", answer)
    /\ ~(PyContains(answer, S_Source) \/ PyContains(answer, S_According_to))
    /\ Len(retrieved_chunks) > 0

\* _detect_hallucination, the answer is longer than half the context
TooLong(answer, retrieved_chunks) ==
    /\ retrieved_chunks # <<>>
    /\ 2 * Len(answer) > SourceLength(retrieved_chunks)

\* MultiStageValidator._detect_hallucination
DetectHallucination(answer, retrieved_chunks) ==
    HallucinationReport(
        Contradictory(answer),
        Indicators(Contradictory(answer),
                   Unattributed(answer, retrieved_chunks),
                   TooLong(answer, retrieved_chunks)))

\* MultiStageValidator._extract_numbers
ExtractNumbers(text) ==
    ReFindAll("percent", text) \o ReFindAll("currency", text)
        \o ReFindAll("decimal", text)

\* the comparison accepting an answer as soon as one of its numbers is found
\* in the sources
CompareNumbersAny(answer_numbers, source_numbers) ==
    IF answer_numbers = <<>>
    THEN [has_numbers |-> FALSE, validated |-> TRUE]
    ELSE [has_numbers |-> TRUE,
          validated |-> \E i \in 1..Len(answer_numbers) :
                            answer_numbers[i] \in SeqToSet(source_numbers),
          answer_numbers |-> answer_numbers,
          matched_count |-> Cardinality({i \in 1..Len(answer_numbers) :
                               answer_numbers[i] \in SeqToSet(source_numbers)}),
          total_count |-> Len(answer_numbers)]

\* the comparison reporting has_numbers = True also for an answer without
\* numbers
CompareNumbersAlwaysHasNumbers(answer_numbers, source_numbers) ==
    [has_numbers |-> TRUE,
     validated |-> \A i \in 1..Len(answer_numbers) :
                       answer_numbers[i] \in SeqToSet(source_numbers),
     answer_numbers |-> answer_numbers,
     matched_count |-> Cardinality({i \in 1..Len(answer_numbers) :
                          answer_numbers[i] \in SeqToSet(source_numbers)}),
     total_count |-> Len(answer_numbers)]

\* _check_numerical_accuracy, the comparison of the two extracted lists
CompareNumbers(answer_numbers, source_numbers) ==
    IF answer_numbers = <<>>
    THEN [has_numbers |-> FALSE, validated |-> TRUE]
    ELSE [has_numbers |-> TRUE,
          validated |-> \A i \in 1..Len(answer_numbers) :
                            answer_numbers[i] \in SeqToSet(source_numbers),
          answer_numbers |-> answer_numbers,
          matched_count |-> Cardinality({i \in 1..Len(answer_numbers) :
                               answer_numbers[i] \in SeqToSet(source_numbers)}),
          total_count |-> Len(answer_numbers)]

\* MultiStageValidator._check_numerical_accuracy
CheckNumericalAccuracy(answer, retrieved_chunks) ==
    CompareNumbers(ExtractNumbers(answer),
                   ExtractNumbers(SourceText(retrieved_chunks)))

\* _calculate_confidence dividing by the four checks instead of the checks
\* listed
CalculateConfidenceOverFour(retrieval_score, alignment_score, passed_count, failed_count) ==
    LET confidence ==
            FAdd(FAdd(FMul(Frac(3, 10), retrieval_score),
                      FMul(Frac(3, 10), alignment_score)),
                 FMul(Frac(4, 10), Frac(passed_count, 4)))
    IN FMin(FInt(1), FMax(FInt(0), confidence))

\* MultiStageValidator._calculate_confidence
CalculateConfidence(retrieval_score, alignment_score, passed_count, failed_count) ==
    LET confidence ==
            FAdd(FAdd(FMul(Frac(3, 10), retrieval_score),
                      FMul(Frac(3, 10), alignment_score)),
                 FMul(Frac(4, 10),
                      Frac(passed_count, Max2(passed_count + failed_count, 1))))
    IN FMin(FInt(1), FMax(FInt(0), confidence))

critical_failures == {"retrieval_quality", "numerical_accuracy"}

\* _determine_validation_level with the confidence thresholds tested before
\* the critical failures
DetermineValidationLevelByConfidence(confidence_score, failed_checks) ==
    IF FGeq(confidence_score, min_confidence) THEN "high"
    ELSE IF SeqToSet(failed_checks) \cap critical_failures # {} THEN "failed"
    ELSE IF FGeq(confidence_score, medium_confidence) THEN "medium"
    ELSE "low"

\* _determine_validation_level taking every failed check for a critical one
DetermineValidationLevelAnyFailure(confidence_score, failed_checks) ==
    IF failed_checks # <<>> THEN "failed"
    ELSE IF FGeq(confidence_score, min_confidence) THEN "high"
    ELSE IF FGeq(confidence_score, medium_confidence) THEN "medium"
    ELSE "low"

\* MultiStageValidator._determine_validation_level
DetermineValidationLevel(confidence_score, failed_checks) ==
    IF SeqToSet(failed_checks) \cap critical_failures # {} THEN "failed"
    ELSE IF FGeq(confidence_score, min_confidence) THEN "high"
    ELSE IF FGeq(confidence_score, medium_confidence) THEN "medium"
    ELSE "low"

\* validate, the bookkeeping after the four checks have run
Verdict(retrieval_score, alignment_score, hallucination_check, numerical_check) ==
    LET retrieval_ok == FGeq(retrieval_score, retrieval_threshold)
        alignment_ok == FGeq(alignment_score, alignment_threshold)
        hallucination_ok == ~hallucination_check.likely_hallucination
        Outcome(name, checked, ok, want) ==
            IF checked /\ ok = want THEN <<name>> ELSE <<>>
        Checks(want) ==
            Outcome("retrieval_quality", TRUE, retrieval_ok, want)
            \o Outcome("source_alignment", TRUE, alignment_ok, want)
            \o Outcome("hallucination_check", TRUE, hallucination_ok, want)
            \o Outcome("numerical_accuracy", numerical_check.has_numbers,
                       numerical_check.validated, want)
        warnings ==
            (IF retrieval_ok THEN <<>> ELSE <<"Low retrieval quality">>)
            \o (IF alignment_ok THEN <<>>
                ELSE <<"Answer may not be well-supported by sources">>)
            \o (IF hallucination_ok THEN <<>> ELSE hallucination_check.indicators)
            \o (IF numerical_check.has_numbers /\ ~numerical_check.validated
                THEN <<"Numbers in answer may not match source documents">>
                ELSE <<>>)
        confidence_score ==
            CalculateConfidence(retrieval_score, alignment_score,
                                Len(Checks(TRUE)), Len(Checks(FALSE)))
    IN [level |-> DetermineValidationLevel(confidence_score, Checks(FALSE)),
        confidence_score |-> confidence_score,
        passed_checks |-> Checks(TRUE),
        failed_checks |-> Checks(FALSE),
        warnings |-> warnings,
        details |-> [retrieval_score |-> retrieval_score,
                     alignment_score |-> alignment_score,
                     hallucination_indicators |-> hallucination_check,
                     numerical_accuracy |-> numerical_check]]

\* MultiStageValidator.validate
Validate(query, answer, retrieved_chunks) ==
    Verdict(CheckRetrievalQuality(retrieved_chunks),
            CheckSourceAlignment(answer, retrieved_chunks),
            DetectHallucination(answer, retrieved_chunks),
            CheckNumericalAccuracy(answer, retrieved_chunks))

(***************************************************************************)
(* HuggingFaceProvider                                                     *)
(***************************************************************************)
S_ANSWER ==
    <<"A","N","S","W","E","R",":">>
S_ErrorPrefix ==
    <<"E","r","r","o","r"," ","g","e","n","e","r","a","t","i","n","g"," ","r",
      "e","s","p","o","n","s","e",":"," ">>
Out_fee ==
    <<"F","e","e"," ","i","s"," ","2","%">>
Out_cited ==
    <<"A","c","c","o","r","d","i","n","g"," ","t","o"," ","S","o","u","r","c",
      "e"," ","1"," ","f","e","e"," ","i","s"," ","9","%">>
Out_notfound ==
    <<"I"," ","c","a","n","n","o","t"," ","f","i","n","d"," ","t","h","i",
      "s">>
Out_echo ==
    <<"Q",":"," ","f","e","e","?"," ","A","N","S","W","E","R",":"," ","f","e",
      "e"," ","i","s"," ","2","%","."," ">>
Err_timeout ==
    <<"R","e","a","d"," ","t","i","m","e","d"," ","o","u","t">>
Err_503 ==
    <<"5","0","3"," ","S","e","r","v","i","c","e"," ","U","n","a","v","a","i",
      "l","a","b","l","e">>
Err_none ==
    <<"a","r","g","u","m","e","n","t"," ","o","f"," ","t","y","p","e"," ","'",
      "N","o","n","e","T","y","p","e","'"," ","i","s"," ","n","o","t"," ","i",
      "t","e","r","a","b","l","e">>

model_name == "mistralai/Mistral-7B-Instruct-v0.2"

\* what self.client.chat_completion does in one call: it returns a message
\* with some content, returns a message whose content is None, or raises
Replies ==
    {[kind |-> "content", content |-> c] : c \in {Out_fee, Out_echo}}
    \cup {[kind |-> "none"]}
    \cup {[kind |-> "raise", error |-> e] : e \in {Err_timeout}}

\* answer_text.split("ANSWER:")[-1].strip()
AfterLastMarker(answer_text) ==
    PyStrip(PySlice(answer_text, PyRFind(answer_text, S_ANSWER) + Len(S_ANSWER),
                    Len(answer_text)))

\* HuggingFaceProvider.generate, the except branch
GenerateError(error) ==
    [text |-> S_ErrorPrefix \o error, model |-> model_name, tokens_used |-> None,
     confidence |-> None, metadata |-> [error |-> error]]

\* HuggingFaceProvider.generate: `"ANSWER:" in None` raises a TypeError inside
\* the try block
Generate(prompt, context, max_tokens, temperature, reply) ==
    IF reply.kind = "raise" THEN GenerateError(reply.error)
    ELSE IF reply.kind = "none" THEN GenerateError(Err_none)
    ELSE [text |-> IF PyContains(reply.content, S_ANSWER)
                   THEN AfterLastMarker(reply.content) ELSE reply.content,
          model |-> model_name, tokens_used |-> None, confidence |-> None,
          metadata |-> [provider |-> "huggingface", temperature |-> temperature,
                        max_tokens |-> max_tokens]]

(***************************************************************************)
(* RAGPipeline and the state of the running program.                       *)
(***************************************************************************)
Q_fee ==
    <<"T","h","e"," ","f","e","e","?">>
Q_exit ==
    <<"E","x","i","t"," ","c","o","s","t","?">>
NoDocumentsAnswer ==
    <<"N","o"," ","d","o","c","u","m","e","n","t","s"," ","l","o","a","d","e",
      "d","."," ","P","l","e","a","s","e"," ","l","o","a","d"," ","d","o","c",
      "u","m","e","n","t","s"," ","f","i","r","s","t",".">>
NotFoundAnswer ==
    <<"I"," ","c","o","u","l","d"," ","n","o","t"," ","f","i","n","d"," ","r",
      "e","l","e","v","a","n","t"," ","i","n","f","o","r","m","a","t","i","o",
      "n"," ","i","n"," ","t","h","e"," ","d","o","c","u","m","e","n","t","s",
      ".">>

Questions == {Q_fee, Q_exit}
\* query hands the question to the retriever and the provider, whose answers
\* the environment chooses, and echoes it in the response: one question drives
\* every path of query
PipelineQuestions == {Q_fee}

VARIABLES
    chunks,             \* HybridRetriever.chunks
    bm25,               \* HybridRetriever.bm25
    chunk_embeddings,   \* HybridRetriever.chunk_embeddings
    documents_loaded,   \* RAGPipeline._documents_loaded
    last,               \* the call the caller is in: what was called, which
                        \* collaborators it reached and what it handed back;
                        \* NoCall between calls
    indexer,            \* a thread inside index_documents: where it is
    reader              \* a thread inside retrieve: where it is and what it
                        \* has read so far

vars == <<chunks, bm25, chunk_embeddings, documents_loaded, last, indexer, reader>>
index == <<chunks, bm25, chunk_embeddings>>
threads == <<indexer, reader>>

NoCall == [op |-> "none"]
Idle == [pc |-> "idle"]

\* self.retriever as one value
Retriever == [chunks |-> chunks, bm25 |-> bm25,
              chunk_embeddings |-> chunk_embeddings]

SetRetriever(r) ==
    /\ chunks' = r.chunks
    /\ bm25' = r.bm25
    /\ chunk_embeddings' = r.chunk_embeddings

\* RAGPipeline.__init__
Init ==
    /\ chunks = NewRetriever.chunks
    /\ bm25 = NewRetriever.bm25
    /\ chunk_embeddings = NewRetriever.chunk_embeddings
    /\ documents_loaded = FALSE
    /\ last = NoCall
    /\ indexer = Idle
    /\ reader = Idle

\* load_documents, the chunks read from document_path (a file or a directory)
LoadChunks(document_path) ==
    IF FileSystem[document_path].kind = "file" THEN ProcessPdf(document_path)
    ELSE ProcessDirectory(document_path)

\* the chunks of every path, computed once
DocChunks ==
    [p \in {q \in Paths : FileSystem[q].kind # "none"} |-> LoadChunks(p)]

\* the non-empty chunk batches callers hand to index_documents: what the
\* document processor produces for the paths
Batches == {DocChunks[p] : p \in DOMAIN DocChunks} \ {<<>>}

\* the else branch reached only after a non-append load has dropped the index
RaiseInvalidPathAfterReset(document_path, append) ==
    /\ last' = [op |-> "load", path |-> document_path, append |-> append,
                outcome |-> "raised", batch |-> <<>>, before |-> chunks]
    /\ IF append THEN UNCHANGED <<index, documents_loaded>>
       ELSE /\ SetRetriever(NewRetriever)
            /\ documents_loaded' = FALSE

\* load_documents, the else branch: document_path is neither a file nor a
\* directory and ValueError is raised
RaiseInvalidPath(document_path, append) ==
    /\ last' = [op |-> "load", path |-> document_path, append |-> append,
                outcome |-> "raised", batch |-> <<>>, before |-> chunks]
    /\ UNCHANGED <<index, documents_loaded>>

\* load_documents setting _documents_loaded outside the test for chunks
LoadProcessedAlwaysReady(document_path, append, new, res) ==
    /\ IF new # <<>>
       THEN SetRetriever(res.r)
       ELSE UNCHANGED index
    /\ documents_loaded' =
           IF new # <<>> /\ res.outcome # "ok" THEN documents_loaded ELSE TRUE
    /\ last' = [op |-> "load", path |-> document_path, append |-> append,
                outcome |-> IF new # <<>> THEN res.outcome ELSE "ok",
                batch |-> new, before |-> chunks]

\* load_documents once the chunks of document_path have been read
LoadProcessed(document_path, append, new, res) ==
    /\ IF new # <<>>
       THEN /\ SetRetriever(res.r)
            /\ documents_loaded' =
                   IF res.outcome = "ok" THEN TRUE ELSE documents_loaded
       ELSE UNCHANGED <<index, documents_loaded>>
    /\ last' = [op |-> "load", path |-> document_path, append |-> append,
                outcome |-> IF new # <<>> THEN res.outcome ELSE "ok",
                batch |-> new, before |-> chunks]

\* RAGPipeline.load_documents(document_path, append); fault is where a library
\* call inside index_documents raises, if it does
LoadDocuments(document_path, append, fault) ==
    /\ last = NoCall
    /\ UNCHANGED threads
    /\ IF FileSystem[document_path].kind = "none"
       THEN fault = "none" /\ RaiseInvalidPath(document_path, append)
       ELSE /\ fault # "none" => DocChunks[document_path] # <<>>
            /\ Len(IdxMerge(Retriever, DocChunks[document_path], append).chunks)
                   <= MaxChunks
            /\ LoadProcessed(document_path, append, DocChunks[document_path],
                             IndexDocuments(Retriever, DocChunks[document_path],
                                            append, fault))

\* a direct call of HybridRetriever.index_documents(new, append)
IndexCall(new, append, fault) ==
    LET res == IndexDocuments(Retriever, new, append, fault)
    IN /\ last = NoCall
       /\ fault # "none" => new # <<>>
       /\ new # <<>> => Len(IdxMerge(Retriever, new, append).chunks) <= MaxChunks
       /\ SetRetriever(res.r)
       /\ UNCHANGED <<documents_loaded, threads>>
       /\ last' = [op |-> "index", append |-> append, outcome |-> res.outcome,
                   batch |-> new, before |-> chunks]

\* a direct call of HybridRetriever.retrieve(query, k, return_scores)
RetrieveCall(query, k, return_scores) ==
    /\ last = NoCall
    /\ \E res \in Retrieve(Retriever, k, return_scores) :
          last' = [op |-> "retrieve", query |-> query, top_k |-> k,
                   return_scores |-> return_scores, outcome |-> res.outcome,
                   results |-> res.results]
    /\ UNCHANGED <<index, documents_loaded, threads>>

\* RAGPipeline.query, the response built once the answer has been generated
\* and (when asked for) validated
Respond(question, return_sources, retrieved, llm_response, validation_result) ==
    [query |-> question,
     answer |-> llm_response.text,
     sources |-> IF return_sources THEN retrieved ELSE <<>>,
     validation |-> validation_result,
     metadata |-> [retrieval_count |-> Len(retrieved),
                   model |-> llm_response.model,
                   tokens_used |-> llm_response.tokens_used,
                   top_retrieval_score |-> retrieved[1].combined_score]]

\* query handing the validator the sources list of the response instead of
\* the retrieved rows
AnsweredValidatingSources(call, retrieved, llm_response) ==
    call @@
    [outcome |-> "ok",
     stages |-> IF call.validate THEN <<"retrieve", "generate", "validate">>
                ELSE <<"retrieve", "generate">>,
     retrieved |-> retrieved,
     llm_response |-> llm_response,
     response |-> Respond(call.question, call.return_sources, retrieved,
                          llm_response,
                          IF call.validate
                          THEN Validate(call.question, llm_response.text,
                                        IF call.return_sources THEN retrieved
                                        ELSE <<>>)
                          ELSE None)]

\* query skipping the validator when the provider reported an error
AnsweredUnvalidatedOnError(call, retrieved, llm_response) ==
    call @@
    [outcome |-> "ok",
     stages |-> IF call.validate /\ "error" \notin DOMAIN llm_response.metadata
                THEN <<"retrieve", "generate", "validate">>
                ELSE <<"retrieve", "generate">>,
     retrieved |-> retrieved,
     llm_response |-> llm_response,
     response |-> Respond(call.question, call.return_sources, retrieved,
                          llm_response,
                          IF call.validate
                             /\ "error" \notin DOMAIN llm_response.metadata
                          THEN Validate(call.question, llm_response.text, retrieved)
                          ELSE None)]

\* RAGPipeline.query, from the generated answer on: retrieved is non-empty
Answered(call, retrieved, llm_response) ==
    call @@
    [outcome |-> "ok",
     stages |-> IF call.validate THEN <<"retrieve", "generate", "validate">>
                ELSE <<"retrieve", "generate">>,
     retrieved |-> retrieved,
     llm_response |-> llm_response,
     response |-> Respond(call.question, call.return_sources, retrieved,
                          llm_response,
                          IF call.validate
                          THEN Validate(call.question, llm_response.text, retrieved)
                          ELSE None)]

\* RAGPipeline.query, after retrieve has handed back res
Retrieved(call, res, reply) ==
    IF res.outcome = "raised"
    THEN call @@ [outcome |-> "raised", stages |-> <<"retrieve">>,
                  retrieved |-> <<>>, provider_reply |-> None,
                  llm_response |-> None, response |-> None]
    ELSE IF res.results = <<>>
    THEN call @@ [outcome |-> "ok", stages |-> <<"retrieve">>,
                  retrieved |-> <<>>, provider_reply |-> None,
                  llm_response |-> None,
                  response |-> [query |-> call.question,
                                answer |-> NotFoundAnswer,
                                sources |-> <<>>,
                                validation |-> None,
                                metadata |-> [retrieval_count |-> 0]]]
    ELSE Answered(call @@ [provider_reply |-> reply], res.results,
                  Generate(call.question,
                           [i \in 1..Len(res.results) |-> res.results[i].text],
                           500, Frac(1, 10), reply))

\* the early return answering as if retrieval had found nothing
NotLoadedAsNotFound(call) ==
    call @@ [outcome |-> "ok", stages |-> <<>>, retrieved |-> <<>>,
             provider_reply |-> None, llm_response |-> None,
             response |-> [query |-> call.question,
                           answer |-> NotFoundAnswer,
                           sources |-> <<>>,
                           validation |-> None,
                           metadata |-> [retrieval_count |-> 0]]]

\* RAGPipeline.query, the early return while no documents are loaded
NotLoaded(call) ==
    call @@ [outcome |-> "ok", stages |-> <<>>, retrieved |-> <<>>,
             provider_reply |-> None, llm_response |-> None,
             response |-> [query |-> call.question,
                           answer |-> NoDocumentsAnswer,
                           sources |-> <<>>,
                           validation |-> None,
                           metadata |-> [error |-> "no_documents_loaded"]]]

\* RAGPipeline.query(question, return_sources, validate)
QueryCall(call) ==
    /\ last = NoCall
    /\ UNCHANGED <<index, documents_loaded, threads>>
    /\ IF ~documents_loaded
       THEN last' = NotLoaded(call)
       ELSE \E res \in Retrieve(Retriever, top_k, TRUE), reply \in Replies :
              last' = Retrieved(call, res, reply)

Query(question, return_sources, validate) ==
    QueryCall([op |-> "query", question |-> question,
               return_sources |-> return_sources, validate |-> validate])

\* a direct call of MultiStageValidator.validate(query, answer, retrieved_chunks)
ValidateCall(query, answer, retrieved_chunks) ==
    /\ last = NoCall
    /\ last' = [op |-> "validate", query |-> query, answer |-> answer,
                retrieved_chunks |-> retrieved_chunks, outcome |-> "ok",
                result |-> Validate(query, answer, retrieved_chunks)]
    /\ UNCHANGED <<index, documents_loaded, threads>>

\* the caller takes the result of the finished call
Return ==
    /\ last # NoCall
    /\ last' = NoCall
    /\ UNCHANGED <<index, documents_loaded, threads>>

\* the pipeline as its callers drive it: loads and queries, one at a time
Next ==
    \/ \E p \in Paths, append \in BOOLEAN, fault \in Faults :
          LoadDocuments(p, append, fault)
    \/ \E q \in PipelineQuestions, return_sources \in BOOLEAN,
          validate \in BOOLEAN :
          Query(q, return_sources, validate)
    \/ Return

Spec == Init /\ [][Next]_vars

\* the retriever on its own: index_documents and retrieve called directly
NextRetriever ==
    \/ \E new \in Batches \cup {<<>>}, append \in BOOLEAN, fault \in Faults :
          IndexCall(new, append, fault)
    \/ \E q \in Questions, k \in 0..MaxTopK, return_scores \in BOOLEAN :
          RetrieveCall(q, k, return_scores)
    \/ Return

SpecRetriever == Init /\ [][NextRetriever]_vars

\* the pipeline together with direct calls of its retriever's index_documents
\* (self.retriever is a public attribute of RAGPipeline)
NextIndex ==
    \/ \E p \in Paths, append \in BOOLEAN, fault \in Faults :
          LoadDocuments(p, append, fault)
    \/ \E new \in Batches \cup {<<>>}, append \in BOOLEAN, fault \in Faults :
          IndexCall(new, append, fault)
    \/ \E q \in PipelineQuestions, return_sources \in BOOLEAN,
          validate \in BOOLEAN :
          Query(q, return_sources, validate)
    \/ Return

SpecIndex == Init /\ [][NextIndex]_vars

(***************************************************************************)
(* The validator on its own: validate is a function of its arguments, so   *)
(* its claims are checked on calls whose answer and retrieved rows are     *)
(* drawn from the sets below.                                              *)
(***************************************************************************)
\* rows handed to one validate call: 0..MaxRows
MaxRows == 2

Out_long ==
    <<"I"," ","c","a","n","n","o","t"," ","f","i","n","d"," ","i","t",","," ",
      "a"," ","b"," ","c"," ","d"," ","e"," ","f"," ","g"," ","h"," ","i"," ",
      "j"," ","k"," ","l"," ","m"," ","n"," ","o"," ","p"," ","q",":"," ","n",
      "o","t"," ","a","v","a","i","l","a","b","l","e","."," ","7","%">>

\* an answer that repeats a source sentence with its figure changed
Out_wrong ==
    <<"F","u","n","d"," ","A"," ","u","p"," ","7","%"," ","i","n"," ","2","0",
      "2","3",".">>

\* a disclaimer that goes on for 21 words and names no figure
Out_disclaimer ==
    <<"c","a","n","n","o","t"," ","f","i","n","d"," ","a"," ","b"," ","c"," ",
      "d"," ","e"," ","f"," ","g"," ","h"," ","i"," ","j"," ","k"," ","l"," ",
      "m"," ","n"," ","o"," ","p"," ","q"," ","r"," ","s">>

\* the answers validated: the provider's outputs, its error text, an answer
\* without numbers, one with a changed figure, a long self-contradicting one
\* with and without a figure, the echo of a source text and the empty answer
Answers ==
    {Out_fee, Out_cited, Out_notfound, Out_wrong, Out_long, Out_disclaimer,
     ExitText, S_ErrorPrefix \o Err_503, <<>>}

\* combined scores of the rows, in quarters
ScoreGrid == {Frac(0, 1), Frac(1, 4), Frac(1, 1)}

\* the text of a chunk of 99 characters: twenty words
LongSourceText == [i \in 1..99 |-> IF i % 5 = 0 THEN " " ELSE "w"]

\* one retrieved row: a chunk of the documents with a combined score, or
\* without one (retrieve called with return_scores = False), or a longer
\* chunk
Rows ==
    LET cs == SeqToSet(DocChunks["two.pdf"])
    IN {[text |-> c.text, source |-> c.source, page |-> c.page,
         chunk_id |-> c.chunk_id, combined_score |-> s] :
            c \in cs, s \in ScoreGrid}
       \cup {[text |-> c.text, source |-> c.source, page |-> c.page,
               chunk_id |-> c.chunk_id] : c \in {DocChunks["two.pdf"][1]}}
       \cup {[text |-> LongSourceText, source |-> "long.pdf", page |-> 1,
               chunk_id |-> 0, combined_score |-> Frac(1, 1)]}

RowLists == UNION {[1..n -> Rows] : n \in 0..MaxRows}

NextValidate ==
    \/ \E q \in Questions, answer \in Answers, rows \in RowLists :
          ValidateCall(q, answer, rows)
    \/ Return

SpecValidate == Init /\ [][NextValidate]_vars

(***************************************************************************)
(* _create_chunks and _normalize_scores on their own: both are functions   *)
(* of their argument, applied here to cleaned page texts long enough for   *)
(* several windows and to raw score vectors.                               *)
(***************************************************************************)
\* the longest page text has 4 * MaxSpans + 1 spans of chunk_overlap
\* characters
MaxSpans == 3

\* sentence lengths of the page texts; 0 is a text without any break
SentenceGaps == {0, 50, 650, 790}

PageTextLengths ==
    {q * chunk_overlap + r : q \in 0..(4 * MaxSpans),
                             r \in {0, 1, chunk_overlap - 1}}

\* a page text as _clean_text leaves it (single spaces, none at either end):
\* sentences of gap characters, each ending in ". "
PageText(len, gap) ==
    [i \in 1..len |->
        IF gap > 0 /\ i % gap = 0 /\ i < len THEN " "
        ELSE IF gap > 0 /\ (i + 1) % gap = 0 THEN "."
        ELSE "a"]

\* a call of DocumentProcessor._create_chunks(text, source, page)
CreateChunksCall(text) ==
    /\ last = NoCall
    /\ last' = [op |-> "create_chunks", text |-> text, outcome |-> "ok",
                chunks |-> CreateChunks(text, "page.pdf", 1)]
    /\ UNCHANGED <<index, documents_loaded, threads>>

\* the raw score arrays handed to _normalize_scores: up to MaxChunks scores
\* in halves, negative ones included (BM25Okapi gives negative scores to
\* terms found in more than half of the corpus)
ScoreVectors ==
    UNION {[1..n -> {Frac(v, 2) : v \in (-2)..(2 * MaxScore)}] :
              n \in 0..MaxChunks}

\* a call of HybridRetriever._normalize_scores(scores)
NormalizeScoresCall(scores) ==
    /\ last = NoCall
    /\ last' = [op |-> "normalize_scores", scores |-> scores, outcome |-> "ok",
                result |-> NormalizeScores(scores)]
    /\ UNCHANGED <<index, documents_loaded, threads>>

NextFunctions ==
    \/ \E len \in PageTextLengths, gap \in SentenceGaps :
          CreateChunksCall(PageText(len, gap))
    \/ \E scores \in ScoreVectors : NormalizeScoresCall(scores)
    \/ Return

SpecFunctions == Init /\ [][NextFunctions]_vars

(***************************************************************************)
(* The while loop of _create_chunks one pass at a time, for processors     *)
(* constructed with other sizes than the defaults.  last holds the locals  *)
(* of the running call: start, chunk_id and chunks.                        *)
(***************************************************************************)
\* passes of the loop followed within one call
MaxPasses == 4

\* DocumentProcessor(chunk_size, chunk_overlap) with 0 <= overlap < size: the
\* defaults, a large overlap, and windows shorter than the 200 characters
\* the break-point test subtracts
ChunkConfigs ==
    {[chunk_size |-> chunk_size, chunk_overlap |-> chunk_overlap],
     [chunk_size |-> 800, chunk_overlap |-> 700],
     [chunk_size |-> 300, chunk_overlap |-> 50],
     [chunk_size |-> 150, chunk_overlap |-> 0]}

\* _create_chunks is entered: start = 0, chunk_id = 0, chunks = []
CreateChunksBegin(text, config) ==
    /\ last = NoCall
    /\ last' = [op |-> "chunking", pc |-> "while", text |-> text,
                chunk_size |-> config.chunk_size,
                chunk_overlap |-> config.chunk_overlap,
                start |-> 0, chunk_id |-> 0, chunks |-> <<>>, passes |-> 0]
    /\ UNCHANGED <<index, documents_loaded, threads>>

\* the loop test and, when it holds, one pass of the body: the chunk is
\* appended, start becomes end - chunk_overlap, and the loop is left when
\* start or end has reached the end of the text
CreateChunksPass ==
    /\ last.op = "chunking"
    /\ last.pc = "while"
    /\ last.passes < MaxPasses
    /\ last' =
          IF ~(last.start < Len(last.text))
          THEN [last EXCEPT !.pc = "return"]
          ELSE [last EXCEPT
                  !.chunks = @ \o <<CreateChunksIter(
                                       last.text, "page.pdf", 1, last.start,
                                       last.chunk_id, last.chunk_size,
                                       last.chunk_overlap).chunk>>,
                  !.chunk_id = @ + 1,
                  !.start = CreateChunksIter(
                                last.text, "page.pdf", 1, last.start,
                                last.chunk_id, last.chunk_size,
                                last.chunk_overlap).next,
                  !.pc = IF CreateChunksIter(
                                last.text, "page.pdf", 1, last.start,
                                last.chunk_id, last.chunk_size,
                                last.chunk_overlap).stop
                         THEN "return" ELSE "while",
                  !.passes = @ + 1]
    /\ UNCHANGED <<index, documents_loaded, threads>>

\* return chunks
CreateChunksReturn ==
    /\ last.op = "chunking"
    /\ last.pc = "return"
    /\ last' = NoCall
    /\ UNCHANGED <<index, documents_loaded, threads>>

NextChunking ==
    \/ \E len \in PageTextLengths, gap \in SentenceGaps,
          config \in ChunkConfigs :
          CreateChunksBegin(PageText(len, gap), config)
    \/ CreateChunksPass
    \/ CreateChunksReturn

SpecChunking == Init /\ [][NextChunking]_vars

(***************************************************************************)
(* HybridRetriever used from two threads: one inside index_documents, one  *)
(* inside retrieve.  The class takes no lock, so each thread advances one  *)
(* statement group at a time: the indexer assigns self.chunks, self.bm25   *)
(* and self.chunk_embeddings in three statements; the reader tests         *)
(* self.chunks / self.bm25, asks self.bm25 for scores, hands               *)
(* self.chunk_embeddings to cosine_similarity and indexes self.chunks      *)
(* while it builds the rows.                                               *)
(***************************************************************************)
\* index_documents, up to the assignment of self.chunks
IndexBegin(new, append) ==
    /\ indexer.pc = "idle"
    /\ Len(IdxMerge(Retriever, new, append).chunks) <= MaxChunks
    /\ chunks' = IdxMerge(Retriever, new, append).chunks
    /\ indexer' = [pc |-> "bm25", batch |-> new, append |-> append]
    /\ UNCHANGED <<bm25, chunk_embeddings, documents_loaded, last, reader>>

\* index_documents, self.bm25 = BM25Okapi(tokenized_corpus)
IndexBuildBM25 ==
    /\ indexer.pc = "bm25"
    /\ bm25' = IdxBM25(Retriever).bm25
    /\ indexer' = [indexer EXCEPT !.pc = "encode"]
    /\ UNCHANGED <<chunks, chunk_embeddings, documents_loaded, last, reader>>

\* index_documents, self.chunk_embeddings = self.embedding_model.encode(texts)
IndexEncode ==
    /\ indexer.pc = "encode"
    /\ chunk_embeddings' = IdxEncode(Retriever).chunk_embeddings
    /\ indexer' = Idle
    /\ UNCHANGED <<chunks, bm25, documents_loaded, last, reader>>

\* retrieve, `if not self.chunks or self.bm25 is None: return []`
RetrieveBegin(query, k, return_scores) ==
    /\ reader.pc = "idle"
    /\ reader' = [pc |-> IF chunks = <<>> \/ bm25 = None THEN "done" ELSE "bm25",
                  query |-> query, top_k |-> k, return_scores |-> return_scores,
                  chunks_checked |-> chunks,
                  bm25_read |-> IF chunks = <<>> THEN None ELSE bm25,
                  embeddings_read |-> None, chunks_read |-> <<>>,
                  outcome |-> "ok", results |-> <<>>]
    /\ UNCHANGED <<index, documents_loaded, last, indexer>>

\* retrieve, bm25_scores = self.bm25.get_scores(tokenized_query)
RetrieveBM25 ==
    /\ reader.pc = "bm25"
    /\ reader' = [reader EXCEPT !.pc = "dense", !.bm25_read = bm25]
    /\ UNCHANGED <<index, documents_loaded, last, indexer>>

\* retrieve, dense_scores = cosine_similarity(.., self.chunk_embeddings)[0];
\* the call raises when the matrix is still None
RetrieveDense ==
    /\ reader.pc = "dense"
    /\ reader' = [reader EXCEPT
                     !.pc = IF chunk_embeddings = None THEN "done" ELSE "rows",
                     !.embeddings_read = chunk_embeddings,
                     !.outcome = IF chunk_embeddings = None THEN "raised" ELSE "ok"]
    /\ UNCHANGED <<index, documents_loaded, last, indexer>>

\* retrieve, from the normalization to the return: the rows are read from
\* self.chunks as it is now
RetrieveRows ==
    /\ reader.pc = "rows"
    /\ \E res \in RetrieveScored(chunks, reader.top_k, reader.return_scores,
                                 Len(reader.bm25_read.corpus),
                                 Len(reader.embeddings_read.rows)) :
          reader' = [reader EXCEPT !.pc = "done", !.chunks_read = chunks,
                                   !.outcome = res.outcome,
                                   !.results = res.results]
    /\ UNCHANGED <<index, documents_loaded, last, indexer>>

\* the reading thread takes the result
RetrieveReturn ==
    /\ reader.pc = "done"
    /\ reader' = Idle
    /\ UNCHANGED <<index, documents_loaded, last, indexer>>

NextConc ==
    \/ \E new \in Batches, append \in BOOLEAN : IndexBegin(new, append)
    \/ IndexBuildBM25
    \/ IndexEncode
    \/ \E q \in Questions, k \in 0..MaxTopK, return_scores \in BOOLEAN :
          RetrieveBegin(q, k, return_scores)
    \/ RetrieveBM25
    \/ RetrieveDense
    \/ RetrieveRows
    \/ RetrieveReturn

SpecConc == Init /\ [][NextConc]_vars

(***************************************************************************)
(* Properties.                                                             *)
(***************************************************************************)
\* C1: whenever validate has returned with retrieval_quality or
\* numerical_accuracy among failed_checks, the returned level is FAILED,
\* whatever the confidence score is (SpecValidate).
C1_CriticalFailureVeto ==
    last.op = "validate" =>
        (SeqToSet(last.result.failed_checks)
             \cap {"retrieval_quality", "numerical_accuracy"} # {}
         => last.result.level = "failed")

\* a validate call that failed a critical check with a confidence that would
\* otherwise have given HIGH
C1_Witness ==
    /\ last.op = "validate"
    /\ "numerical_accuracy" \in SeqToSet(last.result.failed_checks)
    /\ FGeq(last.result.confidence_score, min_confidence)
    /\ last.result.level = "failed"

\* C2: in every state reached by index_documents calls, also calls in which a
\* library call raised part-way, the matrix has one row per chunk of the
\* chunk list and the BM25 index is built over the texts of that same chunk
\* list (SpecRetriever).
C2_IndexReplacedTogether ==
    /\ (IF chunk_embeddings = None THEN 0 ELSE Len(chunk_embeddings.rows))
          = Len(chunks)
    /\ IF bm25 = None THEN chunks = <<>>
       ELSE bm25.corpus = [i \in 1..Len(chunks) |-> PySplit(chunks[i].text)]

\* C3: a retrieve that runs while an index_documents call is under way reads
\* the chunk list, the BM25 index and the matrix of one version of the index:
\* unless it returned at its first test (no chunks or no BM25 index yet), the
\* BM25 index and the matrix it used were built from the chunk list it tested
\* at its start and took its rows from (SpecConc).
C3_ReaderSeesOneVersion ==
    reader.pc = "done" =>
        \/ reader.bm25_read = None
        \/ /\ reader.embeddings_read # None
           /\ reader.chunks_read = reader.chunks_checked
           /\ reader.bm25_read.corpus =
                  [i \in 1..Len(reader.chunks_read) |->
                      PySplit(reader.chunks_read[i].text)]
           /\ reader.embeddings_read.rows =
                  [i \in 1..Len(reader.chunks_read) |->
                      Embed(reader.chunks_read[i].text)]

\* C4: from every index state and for every non-empty batch B,
\* index_documents(B, append=True) twice in a row leaves as many chunks after
\* the second call as after the first (SpecRetriever).
C4_AppendTwiceSameCount ==
    \A B \in Batches :
        Len(IndexDocuments(IndexDocuments(Retriever, B, TRUE, "none").r,
                           B, TRUE, "none").r.chunks)
            = Len(IndexDocuments(Retriever, B, TRUE, "none").r.chunks)

\* an append call on a non-empty index whose whole batch was already held has
\* returned, and the chunk list is what it was
C4_Witness ==
    /\ last.op = "index"
    /\ last.append
    /\ last.outcome = "ok"
    /\ last.batch # <<>>
    /\ last.before # <<>>
    /\ \A i \in 1..Len(last.batch) : last.batch[i] \in SeqToSet(last.before)
    /\ chunks = last.before

\* C5: no two chunks held in the index have the same (source, chunk_id), in
\* any state reached by loads (Spec).
C5_KeyUnique ==
    \A i, j \in 1..Len(chunks) :
        i # j => <<chunks[i].source, chunks[i].chunk_id>>
                     # <<chunks[j].source, chunks[j].chunk_id>>

\* C6: the chunks one load produces for one source carry the chunk_id values
\* 0, 1, 2, ... in emission order, across all pages of that source (Spec).
C6_ChunkIdsSequential ==
    last.op = "load" =>
        \A i \in 1..Len(last.batch) :
            last.batch[i].chunk_id =
                Cardinality({j \in 1..(i - 1) :
                                last.batch[j].source = last.batch[i].source})

\* C7: every retrieve call that returns, for every top_k >= 0, hands back at
\* most top_k rows, in order of non-increasing combined_score (SpecRetriever).
C7_AtMostTopKOrdered ==
    (last.op = "retrieve" /\ last.outcome = "ok") =>
        /\ Len(last.results) <= last.top_k
        /\ last.return_scores =>
              \A i \in 1..(Len(last.results) - 1) :
                  FGeq(last.results[i].combined_score,
                       last.results[i + 1].combined_score)

\* C8: a query made while _documents_loaded is false returns (does not raise)
\* the fixed "No documents loaded" answer, no sources, no validation and the
\* error tag in metadata, whether validate is true or false, and reaches
\* neither the retriever, the provider nor the validator (Spec).
C8_NoDocumentsResponse ==
    (last.op = "query" /\ ~documents_loaded) =>
        /\ last.outcome = "ok"
        /\ last.stages = <<>>
        /\ last.response.answer = NoDocumentsAnswer
        /\ last.response.sources = <<>>
        /\ last.response.validation = None
        /\ "error" \in DOMAIN last.response.metadata
        /\ last.response.metadata.error = "no_documents_loaded"

\* a query with validate = True was answered while the flag was false
C8_Witness ==
    /\ last.op = "query"
    /\ ~documents_loaded
    /\ last.validate
    /\ last.response.answer = NoDocumentsAnswer

\* C9: when the provider call fails during a query that retrieved something,
\* query still returns: the answer is the error text naming the failure, the
\* LLMResponse metadata records the error, and with validate = True the
\* validator's result on that answer and the retrieved rows is in the
\* response (Spec).
C9_GenerationFailureDegrades ==
    (/\ last.op = "query"
     /\ last.provider_reply # None
     /\ last.provider_reply.kind # "content") =>
        /\ last.outcome = "ok"
        /\ last.retrieved # <<>>
        /\ PySlice(last.response.answer, 0, Len(S_ErrorPrefix)) = S_ErrorPrefix
        /\ last.provider_reply.kind = "raise" =>
              last.response.answer = S_ErrorPrefix \o last.provider_reply.error
        /\ "error" \in DOMAIN last.llm_response.metadata
        /\ last.validate =>
              /\ last.response.validation # None
              /\ last.response.validation =
                     Validate(last.question, last.response.answer, last.retrieved)

\* the provider raised during a validated query and the response carries the
\* validator's verdict on the error text
C9_Witness ==
    /\ last.op = "query"
    /\ last.provider_reply # None
    /\ last.provider_reply.kind = "raise"
    /\ last.validate
    /\ last.outcome = "ok"
    /\ last.response.validation # None
    /\ "source_alignment" \in SeqToSet(last.response.validation.failed_checks)

\* C10: load_documents on a path that is neither a file nor a directory
\* raises and leaves the chunk list, the BM25 index, the matrix and
\* _documents_loaded as they were (Spec).
C10_InvalidPathLeavesIndex ==
    [][(/\ last = NoCall
        /\ last'.op = "load"
        /\ FileSystem[last'.path].kind = "none")
       => /\ last'.outcome = "raised"
          /\ UNCHANGED <<chunks, bm25, chunk_embeddings, documents_loaded>>]_vars

\* such a load was refused on an index that held documents
C10_Witness ==
    /\ last.op = "load"
    /\ FileSystem[last.path].kind = "none"
    /\ last.outcome = "raised"
    /\ ~last.append
    /\ chunks # <<>>
    /\ documents_loaded

\* C11: a call of index_documents with an empty batch, for either value of
\* append, and a load_documents call whose path yields no chunks, return
\* without raising and leave the chunk list, the BM25 index, the matrix and
\* _documents_loaded as they were (SpecIndex).
C11_EmptyBatchNoOp ==
    [][(/\ last = NoCall
        /\ last'.op \in {"index", "load"}
        /\ last'.batch = <<>>
        /\ last'.op = "load" => FileSystem[last'.path].kind # "none")
       => /\ last'.outcome = "ok"
          /\ UNCHANGED <<chunks, bm25, chunk_embeddings, documents_loaded>>]_vars

\* index_documents([], append=False) has returned on a retriever that holds
\* an index, and the index is still there
C11_Witness ==
    /\ last.op = "index"
    /\ last.batch = <<>>
    /\ ~last.append
    /\ last.outcome = "ok"
    /\ last.before # <<>>
    /\ chunks = last.before
    /\ bm25 # None
    /\ chunk_embeddings # None
    /\ documents_loaded

\* C12 as stated: after every validate call each of the four checks is listed
\* exactly once, in passed_checks or in failed_checks, so that the two lists
\* hold four names together, also when the answer contains no number
\* (SpecValidate).
C12_EveryCheckDecided ==
    last.op = "validate" =>
        /\ \A c \in {"retrieval_quality", "source_alignment",
                     "hallucination_check", "numerical_accuracy"} :
              Cardinality({i \in 1..Len(last.result.passed_checks) :
                              last.result.passed_checks[i] = c})
              + Cardinality({i \in 1..Len(last.result.failed_checks) :
                                last.result.failed_checks[i] = c}) = 1
        /\ Len(last.result.passed_checks) + Len(last.result.failed_checks) = 4

\* C12 amended: after every validate call each of retrieval_quality,
\* source_alignment and hallucination_check is listed exactly once, in
\* passed_checks or in failed_checks; numerical_accuracy is listed exactly
\* once when the answer contains a digit and in neither list when it contains
\* none, where the check reports has_numbers = false and validated = true
\* (SpecValidate).
C12_ChecksDecided ==
    last.op = "validate" =>
        LET Listed(c) ==
                Cardinality({i \in 1..Len(last.result.passed_checks) :
                                last.result.passed_checks[i] = c})
                + Cardinality({i \in 1..Len(last.result.failed_checks) :
                                  last.result.failed_checks[i] = c})
            numeric == \E i \in 1..Len(last.answer) : IsDigit(last.answer[i])
        IN /\ Listed("retrieval_quality") = 1
           /\ Listed("source_alignment") = 1
           /\ Listed("hallucination_check") = 1
           /\ Listed("numerical_accuracy") = IF numeric THEN 1 ELSE 0
           /\ Len(last.result.passed_checks) + Len(last.result.failed_checks)
                  = IF numeric THEN 4 ELSE 3
           /\ ~numeric =>
                  /\ ~last.result.details.numerical_accuracy.has_numbers
                  /\ last.result.details.numerical_accuracy.validated

\* validate has returned for an answer without numbers over rows it accepts:
\* three checks are listed and numerical_accuracy is in neither list
C12_Witness ==
    /\ last.op = "validate"
    /\ last.answer = Out_notfound
    /\ last.retrieved_chunks # <<>>
    /\ "retrieval_quality" \in SeqToSet(last.result.passed_checks)
    /\ "numerical_accuracy" \notin SeqToSet(last.result.passed_checks)
    /\ "numerical_accuracy" \notin SeqToSet(last.result.failed_checks)
    /\ Len(last.result.passed_checks) + Len(last.result.failed_checks) = 3

\* C13: the level validate returns is FAILED exactly when retrieval_quality
\* or numerical_accuracy is among failed_checks; otherwise it is HIGH when
\* the confidence is at least 0.6, else MEDIUM when it is at least 0.4, else
\* LOW.  Failed source_alignment and hallucination_check do not by
\* themselves give FAILED (SpecValidate).
C13_LevelPriority ==
    last.op = "validate" =>
        LET failed == SeqToSet(last.result.failed_checks)
            c == last.result.confidence_score
        IN /\ last.result.level = "failed"
                  <=> ("retrieval_quality" \in failed
                       \/ "numerical_accuracy" \in failed)
           /\ last.result.level # "failed" =>
                  last.result.level =
                      IF 10 * c.n >= 6 * c.d THEN "high"
                      ELSE IF 10 * c.n >= 4 * c.d THEN "medium"
                      ELSE "low"

\* validate has returned with source_alignment and hallucination_check both
\* failed and no critical check failed: the level follows the confidence
C13_Witness ==
    /\ last.op = "validate"
    /\ SeqToSet(last.result.failed_checks)
           = {"source_alignment", "hallucination_check"}
    /\ last.result.level = "medium"

\* C14: for an answer in which no number can be found (it holds no digit)
\* the numerical check reports has_numbers = false and validated = true; for
\* an answer with numbers it reports validated = true exactly when every
\* number string found in the answer is among the number strings found in
\* the retrieved texts joined by spaces; an unmatched number puts
\* numerical_accuracy among failed_checks and makes the level FAILED
\* (SpecValidate).
C14_NumericalAccuracy ==
    last.op = "validate" =>
        LET check == last.result.details.numerical_accuracy
            numeric == \E i \in 1..Len(last.answer) : IsDigit(last.answer[i])
            in_answer == ExtractNumbers(last.answer)
            in_sources ==
                ExtractNumbers(
                    PyJoin(<<" ">>, [i \in 1..Len(last.retrieved_chunks) |->
                                       last.retrieved_chunks[i].text]))
            all_found == \A i \in 1..Len(in_answer) :
                             \E j \in 1..Len(in_sources) :
                                 in_answer[i] = in_sources[j]
        IN /\ check.has_numbers <=> numeric
           /\ ~numeric => check.validated
           /\ numeric => (check.validated <=> all_found)
           /\ (numeric /\ ~all_found) =>
                  /\ "numerical_accuracy" \in SeqToSet(last.result.failed_checks)
                  /\ last.result.level = "failed"
           /\ (numeric /\ all_found) =>
                  "numerical_accuracy" \in SeqToSet(last.result.passed_checks)

\* validate has returned for an answer that repeats a sentence of the sources
\* with one figure changed: the year is found, the percentage is not, and
\* the level is FAILED
C14_Witness ==
    /\ last.op = "validate"
    /\ last.answer = Out_wrong
    /\ last.result.details.numerical_accuracy.has_numbers
    /\ last.result.details.numerical_accuracy.matched_count >= 1
    /\ ~last.result.details.numerical_accuracy.validated
    /\ last.result.level = "failed"

\* C15 as stated: a query answered while _documents_loaded is true carries a
\* validation exactly when validate is true and retrieve returned rows; that
\* validation is the validator's result on the generated answer and on the
\* rows the response returns as its sources; when retrieve returns no row the
\* answer is the fixed "could not find" text and neither the provider nor the
\* validator is reached (Spec).
C15_ValidationOverSources ==
    (last.op = "query" /\ documents_loaded /\ last.outcome = "ok") =>
        /\ last.response.validation # None
               <=> (last.validate /\ last.retrieved # <<>>)
        /\ last.response.validation # None =>
               last.response.validation =
                   Validate(last.question, last.response.answer,
                            last.response.sources)
        /\ last.retrieved = <<>> =>
               /\ last.response.answer = NotFoundAnswer
               /\ last.stages = <<"retrieve">>

\* C15 amended: the validation is the validator's result on the generated
\* answer and on the rows retrieve returned; these rows are the response's
\* sources when return_sources is true, and with return_sources false the
\* response's sources are empty although the validation was computed from the
\* retrieved rows.  The rest is as stated (Spec).
C15_ValidationOverRetrieved ==
    (last.op = "query" /\ documents_loaded /\ last.outcome = "ok") =>
        /\ last.response.validation # None
               <=> (last.validate /\ last.retrieved # <<>>)
        /\ last.response.validation # None =>
               /\ last.llm_response # None
               /\ last.response.answer = last.llm_response.text
               /\ last.response.validation =
                      Validate(last.question, last.llm_response.text,
                               last.retrieved)
               /\ last.stages = <<"retrieve", "generate", "validate">>
        /\ last.response.sources =
               IF last.return_sources THEN last.retrieved ELSE <<>>
        /\ (last.retrieved # <<>> /\ ~last.validate) =>
               last.stages = <<"retrieve", "generate">>
        /\ last.retrieved = <<>> =>
               /\ last.response.answer = NotFoundAnswer
               /\ last.stages = <<"retrieve">>

\* a validated query with return_sources = False was answered: no sources in
\* the response, and a validation computed from the retrieved rows
C15_Witness ==
    /\ last.op = "query"
    /\ documents_loaded
    /\ last.outcome = "ok"
    /\ last.validate
    /\ ~last.return_sources
    /\ last.retrieved # <<>>
    /\ last.response.sources = <<>>
    /\ last.response.validation # None
    /\ last.response.validation.details.retrieval_score # FInt(0)

\* C16: _documents_loaded is false until a load_documents call that indexed
\* at least one chunk has returned; from then on, through every later load,
\* direct index_documents call and query, it stays true, and while it is
\* true the retriever holds at least one chunk, a BM25 index and a matrix;
\* a retriever that holds chunks never goes back to holding none
\* (SpecIndex).
C16_EmptyToIndexed ==
    [][/\ documents_loaded => documents_loaded'
       /\ (~documents_loaded /\ documents_loaded') =>
              /\ last'.op = "load"
              /\ last'.batch # <<>>
              /\ last'.outcome = "ok"
       /\ documents_loaded' =>
              /\ chunks' # <<>>
              /\ bm25' # None
              /\ chunk_embeddings' # None
       /\ chunks # <<>> => chunks' # <<>>]_vars

\* after the flag was set, a load with append = False raised inside
\* index_documents: the flag is still true and the retriever still holds
\* chunks, a BM25 index and a matrix
C16_Witness ==
    /\ last.op = "load"
    /\ ~last.append
    /\ last.outcome = "raised"
    /\ last.before # <<>>
    /\ chunks # last.before
    /\ documents_loaded
    /\ bm25 # None
    /\ chunk_embeddings # None

C18_NormalizedWithinUnit ==
    (last.op = "normalize_scores" /\ last.scores # <<>>) =>
        LET scores == last.scores
            result == last.result
            Leq(a, b) == a.n * b.d <= b.n * a.d
            IsMax(i) == \A j \in 1..Len(scores) : Leq(scores[j], scores[i])
            IsMin(i) == \A j \in 1..Len(scores) : Leq(scores[i], scores[j])
            flat == \A i, j \in 1..Len(scores) : scores[i] = scores[j]
        IN /\ last.outcome = "ok"
           /\ Len(result) = Len(scores)
           /\ \A i \in 1..Len(result) :
                  /\ result[i].d > 0
                  /\ 0 <= result[i].n
                  /\ result[i].n <= result[i].d
           /\ flat => \A i \in 1..Len(result) : result[i] = FInt(1)
           /\ ~flat => \A i \in 1..Len(result) :
                           /\ IsMax(i) => result[i] = FInt(1)
                           /\ IsMin(i) => result[i] = FInt(0)

\* an array with a negative score and a larger one was normalized to 0 and 1
C18_Witness ==
    /\ last.op = "normalize_scores"
    /\ Len(last.scores) >= 2
    /\ \E i, j \in 1..Len(last.scores) :
          /\ last.scores[i].n < 0
          /\ last.scores[j].n > 0
          /\ last.result[i] = FInt(0)
          /\ last.result[j] = FInt(1)

\* C19 as stated: the hallucination check fails (likely_hallucination is
\* true and hallucination_check is among failed_checks) exactly when at least
\* two of the three indicators are present; one indicator alone, whichever it
\* is, leaves the check passed (SpecValidate).
C19_TwoIndicatorsExactly ==
    last.op = "validate" =>
        LET report == last.result.details.hallucination_indicators
        IN /\ report.likely_hallucination <=> Len(report.indicators) >= 2
           /\ "hallucination_check" \in SeqToSet(last.result.failed_checks)
                  <=> Len(report.indicators) >= 2
           /\ "hallucination_check" \in SeqToSet(last.result.passed_checks)
                  <=> Len(report.indicators) < 2

\* C19 amended: the hallucination check fails exactly when the contradiction
\* indicator is present or at least two of the three indicators are present;
\* unsupported specificity alone and excessive length alone leave the check
\* passed, a contradiction alone does not (SpecValidate).
C19_ContradictionOrTwo ==
    last.op = "validate" =>
        LET report == last.result.details.hallucination_indicators
            contradiction ==
                \E i \in 1..Len(report.indicators) :
                    report.indicators[i]
                        = "Contradictory: Claims no info but provides detail"
            fails == contradiction \/ Len(report.indicators) >= 2
        IN /\ Len(report.indicators) <= 3
           /\ \A i, j \in 1..Len(report.indicators) :
                  i # j => report.indicators[i] # report.indicators[j]
           /\ report.likely_hallucination <=> fails
           /\ "hallucination_check" \in SeqToSet(last.result.failed_checks)
                  <=> fails
           /\ "hallucination_check" \in SeqToSet(last.result.passed_checks)
                  <=> ~fails

\* validate has returned for a long disclaimer over a longer source: the
\* contradiction is the only indicator and the check has failed
C19_Witness ==
    /\ last.op = "validate"
    /\ last.result.details.hallucination_indicators.indicators
           = <<"Contradictory: Claims no info but provides detail">>
    /\ last.result.details.hallucination_indicators.likely_hallucination
    /\ "hallucination_check" \in SeqToSet(last.result.failed_checks)

\* C20: the confidence_score validate returns is
\* 0.3 * retrieval score + 0.3 * alignment score
\* + 0.4 * (passedCount / max(passedCount + failedCount, 1)), brought into
\* [0, 1], with passedCount and failedCount the lengths of the returned
\* passed_checks and failed_checks; it lies within [0, 1] (SpecValidate).
C20_ConfidenceFusion ==
    last.op = "validate" =>
        LET r == last.result.details.retrieval_score
            a == last.result.details.alignment_score
            p == Len(last.result.passed_checks)
            f == Len(last.result.failed_checks)
            m == IF p + f >= 1 THEN p + f ELSE 1
            c == last.result.confidence_score
            \* 10 * r.d * a.d * m times the weighted sum, and that factor
            num == 3 * r.n * a.d * m + 3 * a.n * r.d * m + 4 * p * r.d * a.d
            den == 10 * r.d * a.d * m
        IN /\ c.d > 0
           /\ 0 <= c.n
           /\ c.n <= c.d
           /\ IF num < 0 THEN c.n = 0
              ELSE IF num > den THEN c.n = c.d
              ELSE c.n * den = num * c.d

\* validate has returned with three checks listed, two of them failed, and a
\* confidence strictly between 0 and 1
C20_Witness ==
    /\ last.op = "validate"
    /\ Len(last.result.passed_checks) = 1
    /\ Len(last.result.failed_checks) = 2
    /\ last.result.details.retrieval_score.n > 0
    /\ last.result.details.alignment_score.n > 0
    /\ last.result.confidence_score.n > 0
    /\ last.result.confidence_score.n < last.result.confidence_score.d

\* C21: in every call of _create_chunks, for every cleaned text and every
\* configuration with 0 <= chunk_overlap < chunk_size, each pass of the loop
\* that is followed by another pass leaves start strictly greater than it
\* was, also when the window was trimmed at a sentence break: start never
\* stays where it was and never moves backward, so the loop ends
\* (SpecChunking).
C21_StartStrictlyIncreases ==
    [][(/\ last.op = "chunking"
        /\ last.pc = "while"
        /\ last'.op = "chunking"
        /\ last'.pc = "while")
       => last'.start > last.start]_vars

====
